---- MODULE Spec2Model ----
(***************************************************************************)
(* Model of final_app.py, the Streamlit "Live Resizer & Compressor".       *)
(*                                                                         *)
(* Streamlit re-executes the whole script, top to bottom, after every      *)
(* user interaction; st.session_state.image_library and the widget values  *)
(* survive between executions.  Every action of the model is one          *)
(* interaction followed by the whole execution it triggers: the upload    *)
(* tab (lines 24-32), the URL tab (lines 37-52) and the editor (lines     *)
(* 56-133), in that order.  An exception that the script does not catch   *)
(* ends the execution where it is raised; the session stays alive and     *)
(* keeps what was assigned before.                                        *)
(*                                                                         *)
(* Names are sequences of one-character strings, so that the formatting    *)
(* of generated names and the rsplit of the export name are computed.      *)
(***************************************************************************)
EXTENDS Integers, Sequences, FiniteSets, TLC

VARIABLES
    image_library,   \* st.session_state.image_library: <<[name, image]>> in insertion order
    uploaded_files,  \* value of the file_uploader widget: <<[name, data]>>
    selected_name,   \* value of the selectbox
    sel_options,     \* options the selectbox was last rendered with
    settings,        \* number inputs "w", "h" (with their defaults) and slider "q"
    fetch_exception, \* the exception caught at line 51 in the last execution
    error,           \* where the last execution was ended by an uncaught exception
    shown,           \* elements the last execution has put on the page
    baseline,        \* the save call of line 75 (buf_temp)
    resize_args,     \* the resize call of line 95
    live,            \* the save call of line 99 (buf)
    final_filename,  \* file_name of the download button
    url_filename,    \* name generated by the last execution's fetch, if it succeeded
    url_names        \* names generated by the successful fetches of earlier executions

vars == <<image_library, uploaded_files, selected_name, sel_options, settings,
          fetch_exception, error, shown, baseline, resize_args, live, final_filename, url_filename,
          url_names>>

\* ------------------------------------------------------------------ bounds
MaxLib == 2       \* entries the library may hold
MaxNameLen == 5   \* length of the names of the export specification

\* ------------------------------------------------------------------ names
Dot == "."
UrlPrefix == <<"u", "r", "l", "_", "i", "m", "a", "g", "e", "_">>
JpgSuffix == <<".", "j", "p", "g">>
ExportPrefix == <<"I", "M", "G", "R", "O", "R", "_">>

DigitChar(d) == <<"0", "1", "2", "3", "4", "5", "6", "7", "8", "9">>[d + 1]

\* str(n) of a non-negative integer, as the f-string formats it
RECURSIVE Str(_)
Str(n) == IF n < 10 THEN <<DigitChar(n)>>
          ELSE Str(n \div 10) \o <<DigitChar(n % 10)>>

\* f"url_image_{len(image_library) + 1}.jpg"
UrlFilename(lib) == UrlPrefix \o Str(Len(lib) + 1) \o JpgSuffix

\* ------------------------------------------------------------------ the dict
Keys(lib) == {lib[i].name : i \in DOMAIN lib}
Has(lib, name) == name \in Keys(lib)
IndexOf(lib, name) == CHOOSE i \in DOMAIN lib : lib[i].name = name
Get(lib, name) == lib[IndexOf(lib, name)].image
ImageNames(lib) == [i \in DOMAIN lib |-> lib[i].name]

\* image_library[name] = image: an existing key keeps its place and gets the
\* new value, a new key is appended
SetItem(lib, name, image) ==
    IF Has(lib, name)
    THEN [lib EXCEPT ![IndexOf(lib, name)] = [name |-> name, image |-> image]]
    ELSE Append(lib, [name |-> name, image |-> image])

\* ------------------------------------------------------------------ files and images
\* A file or response body: valid = Image.open identifies it; complete = its
\* pixel data can be loaded (Image.open reads the header only).
RGBFile == [valid |-> TRUE, complete |-> TRUE, mode |-> "RGB", width |-> 2, height |-> 1]
RGBAFile == [valid |-> TRUE, complete |-> TRUE, mode |-> "RGBA", width |-> 2, height |-> 2]
PaletteFile == [valid |-> TRUE, complete |-> TRUE, mode |-> "P", width |-> 1, height |-> 1]
TruncatedFile == [valid |-> TRUE, complete |-> FALSE, mode |-> "RGBA", width |-> 1, height |-> 1]
CorruptFile == [valid |-> FALSE, complete |-> FALSE, mode |-> "RGB", width |-> 1, height |-> 1]
Files == {RGBFile, RGBAFile, PaletteFile, TruncatedFile, CorruptFile}

\* Image.open(f): the image object, not yet loaded
Open(f) == [mode |-> f.mode, width |-> f.width, height |-> f.height]
OpenRaises(f) == ~f.valid

\* if image.mode == 'RGBA': image = image.convert('RGB')
Normalise(img) == IF img.mode = "RGBA" THEN [img EXCEPT !.mode = "RGB"] ELSE img
\* convert() loads the pixel data and raises on a truncated file
NormaliseRaises(f) == f.mode = "RGBA" /\ ~f.complete

\* modes the JPEG writer of Image.save accepts; any other mode raises OSError
JpegModes == {"1", "L", "RGB", "RGBX", "CMYK", "YCbCr"}
SaveRaises(img) == img.mode \notin JpegModes

\* ------------------------------------------------------------------ the encoder
\* len(buf.getvalue()) after image.save(buf, format="JPEG", quality, optimize).
\* The encoder is the imaging library's; this stand-in keeps what the
\* comparisons of the script depend on: the length grows with the pixel count
\* and with the quality, and optimize=True removes table overhead.
JpegLen(width, height, quality, optimize) ==
    600 + width * height * quality + (IF optimize THEN 0 ELSE 20)

\* quality and optimize of a save call that passes neither (line 75)
DefaultQuality == 75
DefaultOptimize == FALSE

NoSave == [called |-> FALSE, width |-> 0, height |-> 0, quality |-> 0,
           optimize |-> FALSE, size |-> 0]
NoResize == [called |-> FALSE, width |-> 0, height |-> 0, quality |-> 0]

\* original_image.save(buf_temp, format="JPEG")
BaselineSave(img) ==
    [called |-> TRUE, width |-> img.width, height |-> img.height,
     quality |-> DefaultQuality, optimize |-> DefaultOptimize,
     size |-> JpegLen(img.width, img.height, DefaultQuality, DefaultOptimize)]

\* original_image.resize((int(new_width), int(new_height))) raises ValueError
\* unless both are positive
ResizeRaises(width, height) == width <= 0 \/ height <= 0

\* resized_img.save(buf, format="JPEG", quality=quality, optimize=True)
LiveSave(width, height, quality) ==
    [called |-> TRUE, width |-> width, height |-> height, quality |-> quality,
     optimize |-> TRUE, size |-> JpegLen(width, height, quality, TRUE)]

\* savings = original_size_kb - new_size_kb, in units of 1/1024 KB: both terms
\* are byte counts divided by 1024, which is exact, so the sign is that of the
\* difference of the byte counts
SavingsSwapped(original_size, new_size) == new_size - original_size
Savings(original_size, new_size) == original_size - new_size

\* if savings > 0: st.write(saved) else: st.warning(size increased)
SavingsMessage(savings) == IF savings > 0 THEN "saved" ELSE "size_increased"

\* ------------------------------------------------------------------ export name
\* name.rsplit('.', 1)[0]: scan from the right for the last '.'
RECURSIVE RSplitHead(_, _)
RSplitHead(name, i) ==
    IF i = 0 THEN name
    ELSE IF name[i] = Dot THEN SubSeq(name, 1, i - 1)
    ELSE RSplitHead(name, i - 1)

RECURSIVE SplitHead(_, _)
SplitHead(name, i) ==
    IF i > Len(name) THEN name
    ELSE IF name[i] = Dot THEN SubSeq(name, 1, i - 1)
    ELSE SplitHead(name, i + 1)

CleanNameFirstDot(name) == SplitHead(name, 1)
CleanName(name) == RSplitHead(name, Len(name))

\* f"IMGROR_{clean_name}.jpg"
FinalFilename(name) == ExportPrefix \o CleanName(name) \o JpgSuffix

\* ------------------------------------------------------------------ upload ingestion
\* body of the loop of lines 25-31 for one upload that raises nothing
AddUploadAlways(lib, upload) == SetItem(lib, upload.name, Normalise(Open(upload.data)))
AddUpload(lib, upload) ==
    IF Has(lib, upload.name) THEN lib
    ELSE SetItem(lib, upload.name, Normalise(Open(upload.data)))

\* Image.open or convert raises, for a name that is not skipped
UploadRaises(lib, upload) ==
    /\ ~Has(lib, upload.name)
    /\ OpenRaises(upload.data) \/ NormaliseRaises(upload.data)

\* for upload in uploaded_files: ... ; the loop ends at the first exception
RECURSIVE Ingest(_, _, _)
Ingest(lib, files, i) ==
    IF i > Len(files) THEN [lib |-> lib, raised |-> FALSE]
    ELSE IF UploadRaises(lib, files[i]) THEN [lib |-> lib, raised |-> TRUE]
    ELSE Ingest(AddUpload(lib, files[i]), files, i + 1)

\* ------------------------------------------------------------------ URL ingestion
ConnectionFailed == [connected |-> FALSE, status |-> 0, body |-> CorruptFile]
Responses ==
    {ConnectionFailed, [connected |-> TRUE, status |-> 500, body |-> CorruptFile]}
    \cup {[connected |-> TRUE, status |-> 200, body |-> f] : f \in Files}

\* requests.get raises, raise_for_status raises on 4xx and 5xx
RequestRaises(resp) == ~resp.connected \/ (resp.status >= 400 /\ resp.status < 600)

\* the exception lines 39-47 raise, in the order the try block runs them
FetchException(resp) ==
    IF ~resp.connected THEN "ConnectionError"                  \* line 39
    ELSE IF RequestRaises(resp) THEN "HTTPError"               \* line 40
    ELSE IF OpenRaises(resp.body) THEN "UnidentifiedImageError" \* line 41
    ELSE IF NormaliseRaises(resp.body) THEN "OSError"          \* line 47
    ELSE "none"
FetchRaises(resp) == FetchException(resp) # "none"

\* the library after the try block of lines 38-52
FetchStoreBeforeConvert(lib, resp) ==
    IF RequestRaises(resp) \/ OpenRaises(resp.body) THEN lib
    ELSE SetItem(lib, UrlFilename(lib), Normalise(Open(resp.body)))
FetchStore(lib, resp) ==
    IF FetchRaises(resp) THEN lib
    ELSE SetItem(lib, UrlFilename(lib), Normalise(Open(resp.body)))

\* ------------------------------------------------------------------ inputs
UrlImage2 == UrlPrefix \o Str(2) \o JpgSuffix
PlainName == <<"a", ".", "b">>
Uploads ==
    {[name |-> PlainName, data |-> RGBAFile],
     [name |-> UrlImage2, data |-> PaletteFile],
     [name |-> UrlImage2, data |-> CorruptFile]}
\* a batch holds each file at most once, in any order
Batches ==
    {b \in UNION {[1..n -> Uploads] : n \in 0..Cardinality(Uploads)} :
        \A i, j \in DOMAIN b : i # j => b[i] # b[j]}
InputSizes == {0, 1, 2}          \* values typed into the number inputs
Qualities == {10, 85}            \* positions of the slider, within 10..100

\* ------------------------------------------------------------------ the session
Init ==
    /\ image_library = <<>>
    /\ uploaded_files = <<>>
    /\ selected_name = <<>>
    /\ sel_options = <<>>
    /\ settings = [w |-> 0, h |-> 0, dw |-> 0, dh |-> 0, q |-> 85]
    /\ fetch_exception = "none"
    /\ error = "none"
    /\ shown = {"library_empty"}
    /\ baseline = NoSave
    /\ resize_args = NoResize
    /\ live = NoSave
    /\ final_filename = <<>>
    /\ url_filename = <<>>
    /\ url_names = {}

\* lines 56-133 on library lib, after the tabs have put page on the page:
\* selection, original stats, settings, processing, download
Editor(lib, sel, set, page) ==
    IF lib = <<>>
    THEN /\ shown' = page \cup {"library_empty"}
         /\ error' = "none"
         /\ selected_name' = sel
         /\ settings' = set
         /\ baseline' = NoSave
         /\ resize_args' = NoResize
         /\ live' = NoSave
         /\ final_filename' = <<>>
         /\ UNCHANGED sel_options
    ELSE \E image_names \in {ImageNames(lib)} :
         \* a selectbox rendered with other options starts at index 0
         \E name \in {IF sel_options = image_names THEN sel ELSE image_names[1]} :
         \E original_image \in {Get(lib, name)} :
         LET
             \* a number input rendered with another default starts at it
             new_width == IF set.dw = original_image.width THEN set.w
                          ELSE original_image.width
             new_height == IF set.dh = original_image.height THEN set.h
                           ELSE original_image.height
             quality == set.q
             buf_temp == BaselineSave(original_image)
             buf == LiveSave(new_width, new_height, quality)
         IN
         /\ selected_name' = name
         /\ sel_options' = image_names
         /\ IF SaveRaises(original_image)
            THEN \* line 75 raises
                 /\ error' = "baseline_save"
                 /\ shown' = page \cup {"selectbox"}
                 /\ baseline' = [buf_temp EXCEPT !.size = 0]
                 /\ settings' = set
                 /\ resize_args' = NoResize
                 /\ live' = NoSave
                 /\ final_filename' = <<>>
            ELSE /\ baseline' = buf_temp
                 /\ settings' = [w |-> new_width, h |-> new_height,
                                 dw |-> original_image.width,
                                 dh |-> original_image.height, q |-> quality]
                 /\ resize_args' = [called |-> TRUE, width |-> new_width,
                                    height |-> new_height, quality |-> quality]
                 /\ IF ResizeRaises(new_width, new_height)
                    THEN \* line 95 raises
                         /\ error' = "resize"
                         /\ shown' = page \cup {"selectbox", "settings"}
                         /\ live' = NoSave
                         /\ final_filename' = <<>>
                    ELSE /\ error' = "none"
                         /\ live' = buf
                         /\ shown' = page \cup
                              {"selectbox", "settings", "new_size", "download",
                               SavingsMessage(Savings(buf_temp.size, buf.size))}
                         /\ final_filename' = FinalFilename(name)

\* one execution of the script: files is the value of the file uploader,
\* clicked the value of the button, resp what the request meets, sel and set
\* the values of the selectbox and of the settings widgets
Script(files, clicked, resp, sel, set) ==
    \E up \in {Ingest(image_library, files, 1)} :                 \* lines 24-31
    LET fetching == clicked /\ ~up.raised                      \* line 37
        fetched == fetching /\ ~FetchRaises(resp)
        page == (IF files # <<>> THEN {"upload_success"} ELSE {})       \* line 32
                \cup (IF fetched THEN {"fetch_success"} ELSE {})        \* line 50
                \cup (IF fetching /\ ~fetched THEN {"fetch_error"} ELSE {})  \* line 52
    IN
    \E lib \in {IF fetching THEN FetchStore(up.lib, resp) ELSE up.lib} :
    /\ uploaded_files' = files
    /\ image_library' = lib
    /\ fetch_exception' = IF fetching THEN FetchException(resp) ELSE "none"
    /\ url_filename' = IF fetched THEN UrlFilename(up.lib) ELSE <<>>      \* line 44
    /\ url_names' = IF url_filename # <<>> THEN url_names \cup {url_filename}
                    ELSE url_names
    /\ IF up.raised
       THEN \* line 28 or 30 raises
            /\ error' = "upload"
            /\ shown' = {}
            /\ selected_name' = sel
            /\ settings' = set
            /\ baseline' = NoSave
            /\ resize_args' = NoResize
            /\ live' = NoSave
            /\ final_filename' = <<>>
            /\ UNCHANGED sel_options
       ELSE Editor(lib, sel, set, page)

\* the user changes the selection of the file uploader
ChooseFiles(batch) ==
    /\ batch # uploaded_files
    /\ Cardinality(Keys(image_library) \cup Keys(batch)) <= MaxLib
    /\ Script(batch, FALSE, ConnectionFailed, selected_name, settings)

\* the user presses "Fetch Image"; resp is what the request meets
ClickFetch(resp) ==
    /\ Has(image_library, UrlFilename(image_library)) \/ Len(image_library) < MaxLib
    /\ Script(uploaded_files, TRUE, resp, selected_name, settings)

Select(name) ==
    /\ "selectbox" \in shown
    /\ name # selected_name
    /\ Script(uploaded_files, FALSE, ConnectionFailed, name, settings)

SetWidth(v) ==
    /\ "settings" \in shown
    /\ v # settings.w
    /\ Script(uploaded_files, FALSE, ConnectionFailed, selected_name,
              [settings EXCEPT !.w = v])

SetHeight(v) ==
    /\ "settings" \in shown
    /\ v # settings.h
    /\ Script(uploaded_files, FALSE, ConnectionFailed, selected_name,
              [settings EXCEPT !.h = v])

SetQuality(v) ==
    /\ "settings" \in shown
    /\ v # settings.q
    /\ Script(uploaded_files, FALSE, ConnectionFailed, selected_name,
              [settings EXCEPT !.q = v])

Next ==
    \/ \E batch \in Batches : ChooseFiles(batch)
    \/ \E resp \in Responses : ClickFetch(resp)
    \/ \E name \in Keys(image_library) : Select(name)
    \/ \E v \in InputSizes : SetWidth(v)
    \/ \E v \in InputSizes : SetHeight(v)
    \/ \E v \in Qualities : SetQuality(v)

Spec == Init /\ [][Next]_vars

\* ------------------------------------------------------------------ export names
\* The session in which the user uploads one opaque image under any name of
\* at most MaxNameLen characters and then works in the editor.
NameChars == {"a", "b", Dot}
ExportNames == UNION {[1..n -> NameChars] : n \in 1..MaxNameLen}

UploadNamed(name) ==
    /\ image_library = <<>>
    /\ Script(<<[name |-> name, data |-> RGBFile]>>, FALSE, ConnectionFailed,
              selected_name, settings)

NextExport ==
    \/ \E name \in ExportNames : UploadNamed(name)
    \/ \E v \in InputSizes : SetWidth(v)
    \/ \E v \in InputSizes : SetHeight(v)
    \/ \E v \in Qualities : SetQuality(v)

SpecExport == Init /\ [][NextExport]_vars

\* ------------------------------------------------------------------ claims
Decodable(data) == ~OpenRaises(data) /\ ~NormaliseRaises(data)
NamesDistinct(lib) == \A i, j \in DOMAIN lib : i # j => lib[i].name # lib[j].name
FirstWithName(files, name) ==
    files[CHOOSE i \in DOMAIN files :
            /\ files[i].name = name
            /\ \A k \in 1..(i - 1) : files[k].name # name]
NoFetchIn(page) == page \cap {"fetch_success", "fetch_error"} = {}

\* C1: the names generated by the successful URL fetches of a session are
\* pairwise distinct: the name a fetch generates was generated by no earlier
\* fetch.
C1_FetchNamesDistinct == url_filename \notin url_names

\* C2: the library is grow-only: every entry present before an execution is
\* present after it, under the same name and with the same image.
C2_GrowOnly ==
    [][\A i \in DOMAIN image_library :
          \E j \in DOMAIN image_library' : image_library'[j] = image_library[i]]_vars

\* C3: upload ingestion is an idempotent insert.  In an execution without a
\* fetch, the entries present before are unchanged, no name occurs twice, an
\* added entry holds the normalised image of the first file of the batch with
\* its name, and a batch whose names are all present leaves the library as it
\* was (so does the re-processing of the batch on every re-run).
C3_UploadIdempotent ==
    [][NoFetchIn(shown') =>
        /\ Len(image_library') >= Len(image_library)
        /\ SubSeq(image_library', 1, Len(image_library)) = image_library
        /\ NamesDistinct(image_library')
        /\ \A j \in (Len(image_library) + 1)..Len(image_library') :
              /\ Has(uploaded_files', image_library'[j].name)
              /\ image_library'[j].image =
                   Normalise(Open(FirstWithName(uploaded_files',
                                                image_library'[j].name).data))
        /\ (\A i \in DOMAIN uploaded_files' :
                Has(image_library, uploaded_files'[i].name))
             => image_library' = image_library
        /\ uploaded_files' = uploaded_files => image_library' = image_library]_vars

\* C3 witness: the batch just processed holds a file whose name was already
\* stored with another image, and the stored image is still the first one.
C3_Witness ==
    /\ error = "none"
    /\ "upload_success" \in shown
    /\ \E i \in DOMAIN uploaded_files :
          /\ Has(image_library, uploaded_files[i].name)
          /\ Decodable(uploaded_files[i].data)
          /\ Get(image_library, uploaded_files[i].name)
               # Normalise(Open(uploaded_files[i].data))

\* C4: a decode failure on one file of a batch does not end the execution and
\* does not keep the decodable files of the batch out of the library.
C4_DecodeFailureIsolated ==
    /\ error # "upload"
    /\ \A i \in DOMAIN uploaded_files :
          Decodable(uploaded_files[i].data)
            => Has(image_library, uploaded_files[i].name)

\* C5: a URL fetch that fails (connection, HTTP status, undecodable body,
\* normalisation) leaves the library as it was, shows the error message and
\* lets the execution go on to the rest of the page.
C5_FailedFetchKeepsLibrary ==
    [][fetch_exception' # "none" =>
        /\ image_library' = image_library
        /\ "fetch_error" \in shown'
        /\ "fetch_success" \notin shown'
        /\ url_filename' = <<>>
        /\ error' # "upload"
        /\ "library_empty" \in shown' \/ "selectbox" \in shown']_vars

\* C5 witness: normalisation of the fetched body raised while the library
\* held an entry.
C5_Witness ==
    /\ fetch_exception = "OSError"
    /\ image_library # <<>>
    /\ "fetch_error" \in shown

\* C6: every stored image is in opaque 3-channel form, and the baseline save
\* of the selected entry does not fail on its mode.
C6_StoredImagesOpaque ==
    /\ \A i \in DOMAIN image_library : image_library[i].image.mode = "RGB"
    /\ error # "baseline_save"

\* C7: whenever resize is called, the target width and height are positive
\* and the quality is within 10..100.
C7_TransformParametersValid ==
    resize_args.called =>
        /\ resize_args.width > 0
        /\ resize_args.height > 0
        /\ resize_args.quality \in 10..100

\* C8: the exported filename is "IMGROR_" + base + ".jpg", where base is the
\* selected name up to, and without, its last '.', or the whole name when it
\* holds no '.'.
C8_Base(name) ==
    IF \A i \in DOMAIN name : name[i] # Dot THEN name
    ELSE LET last == CHOOSE i \in DOMAIN name :
                        /\ name[i] = Dot
                        /\ \A k \in (i + 1)..Len(name) : name[k] # Dot
         IN [k \in 1..(last - 1) |-> name[k]]
C8_ExportFilename ==
    "download" \in shown =>
        final_filename =
            <<"I", "M", "G", "R", "O", "R", "_">> \o C8_Base(selected_name)
                \o <<".", "j", "p", "g">>

\* C8 witness: "a.b.a" is exported as "IMGROR_a.b.jpg".
C8_Witness ==
    /\ "download" \in shown
    /\ selected_name = <<"a", ".", "b", ".", "a">>
    /\ final_filename = <<"I", "M", "G", "R", "O", "R", "_", "a", ".", "b",
                          ".", "j", "p", "g">>

\* C9: the original-size estimate is what the live save reports for the
\* source at its native dimensions and quality 85, with the encoder settings
\* of the live save.
C9_BaselineIsTransformAt85 ==
    (baseline.called /\ error # "baseline_save") =>
        LET original_image == Get(image_library, selected_name)
            reference == LiveSave(original_image.width, original_image.height, 85)
        IN /\ baseline.width = reference.width
           /\ baseline.height = reference.height
           /\ baseline.quality = reference.quality
           /\ baseline.optimize = reference.optimize
           /\ baseline.size = reference.size

\* C10: with savings = original size - new size, negative savings show the
\* size-increase warning and not the savings message, the savings message is
\* shown only for positive savings, and in every case the execution ends
\* without an error and offers the download.
C10_SavingsReport ==
    "new_size" \in shown =>
        LET savings == baseline.size - live.size IN
        /\ savings < 0 => ("size_increased" \in shown /\ "saved" \notin shown)
        /\ "saved" \in shown => savings > 0
        /\ error = "none"
        /\ "download" \in shown

\* C10 witness: an upscaled result larger than the estimate, reported as a
\* size increase with the download offered.
C10_Witness ==
    /\ "new_size" \in shown
    /\ live.width * live.height > baseline.width * baseline.height
    /\ live.size > baseline.size
    /\ "size_increased" \in shown
    /\ "download" \in shown
====
